---- MODULE Spec2Model ----
(***************************************************************************)
(* A model of crawlr, a crawler of nostr relays.  The repository holds     *)
(* several iterations of the same program; the model covers                *)
(*   - the pooled scheduler (crawlClearOnlineRelays driven by main's loop) *)
(*     in its three iterations: src/crawl.go ("crawl"),                    *)
(*     src/crawlr2/main.go ("crawlr2") and src/unnamed/part_010            *)
(*     ("part010"), and                                                    *)
(*   - the recursive crawler (CrawlRelay / connectAndFetch /               *)
(*     parseRelayList of src/main.go, lines 1-393) ("recursive").          *)
(* The variable program says which one runs; Init chooses it.  The three   *)
(* pooled iterations share the registry of src/crawl.go:110-170, which is  *)
(* the one of package crawlr2 too (src/crawlr2/utils.go:137-158).          *)
(*                                                                         *)
(* A URL is a sequence of tokens: <<"wss://", "a", ".com", "/">> stands    *)
(* for the string "wss://a.com/".                                          *)
(***************************************************************************)
EXTENDS Integers, Sequences, FiniteSets, TLC

VARIABLES
    program,        \* which iteration runs
    graph,          \* which relays advertise which (the environment)
    concurrency,    \* the parameter of crawlClearOnlineRelays
    silent,         \* relays that accept a connection, send nothing and never close
    checkpoint,     \* the rows of the relay log file read at startup (records[1:])
    \* ---- src/vars.go: the registry of the pooled scheduler
    clearOnline,    \* map[string]int
    clearOffline,   \* map[string]int
    clearAPI,       \* map[string]int
    onion,          \* map[string]int
    local,          \* map[string]int
    malformed,      \* map[string]int
    crawledRelays,  \* map[string]bool, as the set of keys that map to true
    \* ---- the goroutine started by main (src/main.go:458-476)
    mpc,            \* position of the main loop
    passes,         \* number of iterations of the main loop started
    seedGot,        \* the seed's event was received in the running seed fetch
    seedEose,       \* EOSE was received in the running seed fetch
    \* ---- crawlClearOnlineRelays (src/crawl.go:173-220)
    relaysToCrawl,  \* the local slice relays: snapshot entries not yet dispatched
    dispatched,     \* the entries of the snapshot of the running pass
    sem,            \* number of slots held of the channel sem
    wpc,            \* position of the worker goroutine of each relay
    tries,          \* the loop index i of each worker
    got,            \* the relay's event was received in the running attempt
    \* ---- the recursive crawler (src/main.go:26-33)
    relays,         \* map[string]*RelayInfo
    offlineRelays,  \* map[string]bool, as a set
    calls,          \* CrawlRelay goroutines started that have not run yet
    crawler,        \* the CrawlRelay goroutine that is crawling each relay
    wg,             \* main's WaitGroup: seed crawls that have not returned
    \* ---- history, for the properties
    classifyIn,     \* the argument of the last call of classifyRelay made on its own
    classifyCalls,  \* number of such calls
    eventTags,      \* the tags of the event parseRelayList is called with on its own
    eventParsed,    \* that call was made
    registrations,  \* how often each URL was registered (classified or counted)
    noise,          \* the message that is no event and no EOSE a worker got from a relay
    exitpc,         \* main after <-exitSignal: "run", "finalize", "exited", "fatal"
    exported,       \* the files finalize has written so far, in order
    inflight,       \* fetch attempts running, per relay
    attempts,       \* fetch attempts started, per relay
    succeeded,      \* relays with at least one successful worker attempt
    \* ---- the crawl package (src/crawl/init.go:14-34)
    pkg,            \* its maps and counters, and its goroutines
    lk              \* where each goroutine is among its lock operations

regVars == <<clearOnline, clearOffline, clearAPI, onion, local, malformed>>
poolVars == <<mpc, passes, seedGot, seedEose, relaysToCrawl, dispatched, sem, wpc, tries, got>>
recVars == <<relays, offlineRelays, calls, crawler, wg>>
histVars == <<inflight, attempts, succeeded>>
envVars == <<program, graph, concurrency, silent, checkpoint>>
fnVars == <<classifyIn, classifyCalls, eventTags, eventParsed>>
msgVars == <<noise, exitpc, exported>>
vars == <<envVars, fnVars, msgVars, registrations, regVars, crawledRelays, poolVars, recVars, histVars,
          pkg, lk>>

---------------------------------------------------------------------------
(* Bounds of the model *)
\* the goroutines that use the locks of the crawl package at the same time
Goroutines == {"ResetRelayData", "Init", "Init2", "Parse", "ContinueCrawl",
               "allOnlineRelaysCrawled", "writeToCSV"}


\* iterations of main's loop that the model follows
MaxPasses == 2
\* calls of classifyRelay made on its own, one after the other
MaxClassifyCalls == 2
\* tags of the event parseRelayList is called with on its own
MaxTags == 2
\* the largest value of the parameter concurrency (main passes 200 or 10)
MaxConcurrency == 2

---------------------------------------------------------------------------
(* maps *)

Get(m, k) == IF k \in DOMAIN m THEN m[k] ELSE 0
Put(m, k, v) == [x \in DOMAIN m \cup {k} |-> IF x = k THEN v ELSE m[x]]
Delete(m, k) == [x \in DOMAIN m \ {k} |-> m[x]]
EmptyMap == <<>>

---------------------------------------------------------------------------
(* URLs: src/crawlr2/utils.go:124-305 *)

Schemes == {"ws://", "wss://"}
TLDs == {".lol", ".com", ".onion", ".local"}

\* strings.ToLower on one token
LowerTok(t) == IF t = "A" THEN "a" ELSE t

RECURSIVE TrimRightSlash(_)
TrimRightSlash(u) ==
    IF Len(u) > 0 /\ u[Len(u)] = "/" THEN TrimRightSlash(SubSeq(u, 1, Len(u) - 1)) ELSE u

normalizeURL(u) ==
    LET t == TrimRightSlash(u) IN [i \in 1..Len(t) |-> LowerTok(t[i])]

HasWsPrefix(u) == Len(u) > 0 /\ u[1] \in Schemes

\* index of the first "/" after the scheme, or Len(u)+1
RECURSIVE FirstSlash(_, _)
FirstSlash(u, i) ==
    IF i > Len(u) THEN Len(u) + 1
    ELSE IF u[i] = "/" THEN i ELSE FirstSlash(u, i + 1)

\* the schemes of the model: url.Parse splits any of them off
AnySchemes == Schemes \cup {"http://"}
HasScheme(u) == Len(u) > 0 /\ u[1] \in AnySchemes

\* url.Parse returns an error: the token "%zz" is an invalid percent escape
ParseFails(u) == \E i \in 1..Len(u) : u[i] = "%zz"

\* url.Parse(u).Hostname(); "" when the string does not parse (extractHost)
Hostname(u) ==
    IF HasScheme(u) /\ ~ParseFails(u) THEN SubSeq(u, 2, FirstSlash(u, 2) - 1) ELSE <<>>
\* url.Parse(u).Path
Path(u) ==
    IF ParseFails(u) THEN <<>>
    ELSE IF HasScheme(u) THEN SubSeq(u, FirstSlash(u, 2), Len(u)) ELSE u

\* net.ParseIP on the IP literals of the model; <<>> is nil
IPTable ==
    [ip \in {"127.0.0.1", "10.0.0.1", "172.16.0.1", "192.168.1.5", "100.64.0.1",
             "169.254.1.1", "192.0.2.1", "198.51.100.1", "203.0.113.1",
             "224.0.0.1", "240.0.0.1", "255.255.255.255", "8.8.8.8"} |->
        CASE ip = "127.0.0.1" -> <<127, 0, 0, 1>>
          [] ip = "10.0.0.1" -> <<10, 0, 0, 1>>
          [] ip = "172.16.0.1" -> <<172, 16, 0, 1>>
          [] ip = "192.168.1.5" -> <<192, 168, 1, 5>>
          [] ip = "100.64.0.1" -> <<100, 64, 0, 1>>
          [] ip = "169.254.1.1" -> <<169, 254, 1, 1>>
          [] ip = "192.0.2.1" -> <<192, 0, 2, 1>>
          [] ip = "198.51.100.1" -> <<198, 51, 100, 1>>
          [] ip = "203.0.113.1" -> <<203, 0, 113, 1>>
          [] ip = "224.0.0.1" -> <<224, 0, 0, 1>>
          [] ip = "240.0.0.1" -> <<240, 0, 0, 1>>
          [] ip = "255.255.255.255" -> <<255, 255, 255, 255>>
          [] ip = "8.8.8.8" -> <<8, 8, 8, 8>>]
ParseIP(host) ==
    IF Len(host) = 1 /\ host[1] \in DOMAIN IPTable THEN IPTable[host[1]] ELSE <<>>

\* ip.IsLoopback()
IsLoopback(ip) == ip[1] = 127

\* reservedBlocks: the address and the length of the mask of each block
reservedBlocks ==
    << <<<<10, 0, 0, 0>>, 8>>, <<<<172, 16, 0, 0>>, 12>>, <<<<192, 168, 0, 0>>, 16>>,
       <<<<100, 64, 0, 0>>, 10>>, <<<<127, 0, 0, 0>>, 8>>, <<<<169, 254, 0, 0>>, 16>>,
       <<<<192, 0, 2, 0>>, 24>>, <<<<198, 51, 100, 0>>, 24>>, <<<<203, 0, 113, 0>>, 24>>,
       <<<<224, 0, 0, 0>>, 4>>, <<<<240, 0, 0, 0>>, 4>>,
       <<<<255, 255, 255, 255>>, 32>> >>

\* block.Contains(ip): the first bits of ip are those of the block
Contains(block, ip) ==
    LET base == block[1]
        bits == block[2]
        hi(a) == a[1] * 256 + a[2]
        lo(a) == a[3] * 256 + a[4]
    IN  IF bits <= 16
        THEN hi(ip) \div 2^(16 - bits) = hi(base) \div 2^(16 - bits)
        ELSE hi(ip) = hi(base) /\ lo(ip) \div 2^(32 - bits) = lo(base) \div 2^(32 - bits)

isReservedIP(ip) == \E i \in 1..Len(reservedBlocks) : Contains(reservedBlocks[i], ip)

HasSuffixTok(h, t) == Len(h) > 0 /\ h[Len(h)] = t

isMalformedRelay(u) ==
    \/ (Len(u) > 0 /\ u[1] = "\"") \/ ~HasWsPrefix(u)
    \/ ParseFails(u)
    \/ ~(\E t \in TLDs : HasSuffixTok(Hostname(u), t))

isLocalRelay(u) ==
    LET host == Hostname(u)
        ip == ParseIP(host)
    IN  \/ HasSuffixTok(host, ".local")
        \/ ip # <<>> /\ (IsLoopback(ip) \/ isReservedIP(ip))

isOnionRelay(u) == HasSuffixTok(Hostname(u), ".onion")

isAPIRelay(u) == ~ParseFails(u) /\ Path(u) # <<>> /\ Path(u) # <<"/">>

---------------------------------------------------------------------------
(* The relays of the model and what each advertises *)

initialRelay == <<"wss://", "nos", ".lol">>
relayA == <<"wss://", "a", ".com">>
relayB == <<"wss://", "b", ".com">>
relayC == <<"wss://", "c", ".com">>
rawA == <<"wss://", "A", ".com", "/">>
onionURL == <<"wss://", "x", ".onion">>
localURL == <<"ws://", "h", ".local">>
apiURL == <<"wss://", "a", ".com", "/", "filter">>
badURL == <<"not-a-url">>
relayR2 == <<"wss://", "r2">>
ipURL == <<"ws://", "192.168.1.5">>
apiR2 == <<"wss://", "r2", "/", "filter">>
wsRelay == <<"ws://", "d", ".com">>

Graphs == {"chain", "fan", "scenarioA"}

\* the "r" tags of the one kind-10002 event a relay serves.  In the chain the
\* seed lists a, a lists c and c lists a again; in the fan the seed lists a and b;
\* in scenarioA the seed lists a relay without top-level label, an IP literal,
\* an onion relay, a filtered relay and a string that is no URL; in scenarioC
\* the seed lists b and c, and b and c both list a; in the graph mixed the seed
\* lists one public relay that is served without TLS.
Advertised(r) ==
    IF graph = "chain"
    THEN IF r = initialRelay THEN <<rawA, onionURL, apiURL>>
         ELSE IF r = relayA THEN <<relayC, localURL, badURL>>
         ELSE IF r = relayC THEN <<relayA>>
         ELSE <<>>
    ELSE IF graph = "fan"
    THEN IF r = initialRelay THEN <<rawA, relayB, onionURL>>
         ELSE <<>>
    ELSE IF graph = "scenarioA"
    THEN IF r = initialRelay THEN <<relayR2, ipURL, onionURL, apiR2, badURL>>
         ELSE <<>>
    ELSE IF graph = "mixed"
    THEN IF r = initialRelay THEN <<wsRelay>>
         ELSE <<>>
    ELSE IF r = initialRelay THEN <<relayB, relayC>>
         ELSE IF r \in {relayB, relayC} THEN <<relayA>>
         ELSE <<>>

Keys ==
    {initialRelay, relayA, relayB, relayC, onionURL, localURL, apiURL, badURL,
     relayR2, ipURL, apiR2, wsRelay}

---------------------------------------------------------------------------
(* constants of the iterations *)

Pooled == {"crawl", "crawlr2", "part010"}

\* src/constants.go:15, src/crawlr2/main.go:42, src/unnamed/part_003:13
maxTries == IF program = "crawlr2" THEN 2 ELSE 1

---------------------------------------------------------------------------
(* The registry: classifyRelay and parseRelayList (src/crawl.go:110-170) *)

\* the category classifyRelay with the API check made first would choose
CategoryAPIFirst(n) ==
    IF isMalformedRelay(n) THEN "malformed"
    ELSE IF isAPIRelay(n) THEN "clearAPI"
    ELSE IF isLocalRelay(n) THEN "local"
    ELSE IF isOnionRelay(n) THEN "onion"
    ELSE "clearOnline"

Category(n) ==
    IF isMalformedRelay(n) THEN "malformed"
    ELSE IF isLocalRelay(n) THEN "local"
    ELSE IF isOnionRelay(n) THEN "onion"
    ELSE IF isAPIRelay(n) THEN "clearAPI"
    ELSE "clearOnline"

\* the five maps classifyRelay writes, as a record
Parts ==
    [clearOnline |-> clearOnline, clearAPI |-> clearAPI, onion |-> onion,
     local |-> local, malformed |-> malformed]

\* classifyRelay with the last branch taken also after the API branch
classifyRelayFallsThrough(p, relayURL) ==
    LET normalizedURL == normalizeURL(relayURL)
        c == Category(normalizedURL)
        q == [p EXCEPT ![c] = Put(@, normalizedURL, Get(@, normalizedURL) + 1)]
    IN  IF c = "clearAPI"
        THEN [q EXCEPT !.clearOnline = Put(@, normalizedURL, Get(@, normalizedURL) + 1)]
        ELSE q

classifyRelay(p, relayURL) ==
    LET normalizedURL == normalizeURL(relayURL)
        c == Category(normalizedURL)
    IN  [p EXCEPT ![c] = Put(@, normalizedURL, Get(@, normalizedURL) + 1)]

\* the loop of parseRelayList over the relay URLs of an event, under mu
RECURSIVE parseRelayList(_, _)
parseRelayList(p, relayURLs) ==
    IF relayURLs = <<>> THEN p
    ELSE parseRelayList(classifyRelay(p, Head(relayURLs)), Tail(relayURLs))

\* the registrations after each URL of the list was registered under its key
RECURSIVE Noted(_, _)
Noted(reg, keys) ==
    IF keys = <<>> THEN reg
    ELSE Noted(Put(reg, Head(keys), Get(reg, Head(keys)) + 1), Tail(keys))

Register(relayURLs) ==
    LET p == parseRelayList(Parts, relayURLs)
    IN  /\ clearOnline' = p.clearOnline
        /\ clearAPI' = p.clearAPI
        /\ onion' = p.onion
        /\ local' = p.local
        /\ malformed' = p.malformed
        /\ registrations' =
               Noted(registrations,
                     [i \in 1..Len(relayURLs) |-> normalizeURL(relayURLs[i])])

---------------------------------------------------------------------------
(* history *)

Bump(f, k) == [f EXCEPT ![k] = @ + 1]
Drop(f, k) == [f EXCEPT ![k] = @ - 1]

---------------------------------------------------------------------------
(* main's loop of the pooled scheduler: src/main.go:458-476 *)

seedKey == normalizeURL(initialRelay)

\* ReqKind10002(initialRelay) is called
SeedStart ==
    /\ program \in Pooled
    /\ mpc = "req"
    /\ passes < MaxPasses
    /\ mpc' = "reqRun"
    /\ passes' = passes + 1
    /\ seedGot' = FALSE
    /\ seedEose' = FALSE
    /\ inflight' = Bump(inflight, seedKey)
    /\ attempts' = Bump(attempts, seedKey)
    /\ UNCHANGED <<envVars, lk, pkg, fnVars, msgVars, registrations, regVars, crawledRelays, relaysToCrawl, dispatched, sem,
                   wpc, tries, got, recVars, succeeded>>

\* the seed's event arrives: handleMessage -> parseRelayList
SeedRecv ==
    /\ program \in Pooled
    /\ mpc = "reqRun"
    /\ ~seedGot
    /\ seedGot' = TRUE
    /\ Register(Advertised(initialRelay))
    /\ UNCHANGED <<envVars, lk, pkg, fnVars, msgVars, clearOffline, crawledRelays, mpc, passes, seedEose,
                   relaysToCrawl, dispatched, sem, wpc, tries, got, recVars, histVars>>

\* the EOSE message ends the fetch: break / return nil in src/crawlr2/main.go:90-93
\* and src/unnamed/part_010:66-68; in src/crawl.go:96-98 handleMessage returns nil
\* and receiveMessages goes on to the next Receive (src/crawl.go:66-83)
ReturnsAtEose == program # "crawl"

\* the message ["EOSE", ...] arrives in the seed fetch
SeedEose ==
    /\ program \in Pooled
    /\ mpc = "reqRun"
    /\ ~seedEose
    /\ IF ReturnsAtEose
       THEN /\ mpc' = "snapshot"
            /\ inflight' = Drop(inflight, seedKey)
            /\ seedEose' = FALSE
       ELSE /\ seedEose' = TRUE
            /\ UNCHANGED <<mpc, inflight>>
    /\ UNCHANGED <<envVars, lk, pkg, fnVars, msgVars, registrations, regVars, crawledRelays, passes, seedGot,
                   relaysToCrawl, dispatched, sem, wpc, tries, got, recVars, attempts,
                   succeeded>>

\* ReqKind10002 returns, nil or an error that main only logs: the connection
\* was closed, Receive failed or the timeout was seen
SeedEnd ==
    /\ program \in Pooled
    /\ mpc = "reqRun"
    /\ mpc' = "snapshot"
    /\ seedEose' = FALSE
    /\ inflight' = Drop(inflight, seedKey)
    /\ UNCHANGED <<envVars, lk, pkg, fnVars, msgVars, registrations, regVars, crawledRelays, passes, seedGot, relaysToCrawl,
                   dispatched, sem, wpc, tries, got, recVars, attempts, succeeded>>

---------------------------------------------------------------------------
(* crawlClearOnlineRelays: src/crawl.go:173-220 *)

\* the relays collected under mu (src/crawl.go:177-184)
\* the snapshot without the test of the partition: clearAPI is dispatched too
SnapshotWithAPI ==
    {relay \in DOMAIN clearOnline \cup DOMAIN clearAPI : relay \notin crawledRelays}

Snapshot == {relay \in DOMAIN clearOnline : relay \notin crawledRelays}

TakeSnapshot ==
    /\ program \in Pooled
    /\ mpc = "snapshot"
    /\ mpc' = "dispatch"
    /\ relaysToCrawl' = Snapshot
    /\ dispatched' = Snapshot
    /\ wpc' = [k \in Keys |-> "idle"]
    /\ tries' = [k \in Keys |-> 0]
    /\ got' = [k \in Keys |-> FALSE]
    /\ UNCHANGED <<envVars, lk, pkg, fnVars, msgVars, registrations, regVars, crawledRelays, passes, seedGot, seedEose, sem, recVars,
                   histVars>>

\* sem <- struct{}{} blocks while all slots are held
\* the send on sem never blocks
SlotAlwaysFree == TRUE

SlotFree == sem < concurrency

\* wg.Add(1); sem <- struct{}{}; go func(r)
Dispatch(r) ==
    /\ program \in Pooled
    /\ mpc = "dispatch"
    /\ r \in relaysToCrawl
    /\ SlotFree
    /\ sem' = sem + 1
    /\ relaysToCrawl' = relaysToCrawl \ {r}
    /\ wpc' = [wpc EXCEPT ![r] = "loop"]
    /\ UNCHANGED <<envVars, lk, pkg, fnVars, msgVars, registrations, regVars, crawledRelays, mpc, passes, seedGot, seedEose, dispatched,
                   tries, got, recVars, histVars>>

\* the range loop is over
DispatchDone ==
    /\ program \in Pooled
    /\ mpc = "dispatch"
    /\ relaysToCrawl = {}
    /\ mpc' = "wait"
    /\ UNCHANGED <<envVars, lk, pkg, fnVars, msgVars, registrations, regVars, crawledRelays, passes, seedGot, seedEose, relaysToCrawl,
                   dispatched, sem, wpc, tries, got, recVars, histVars>>

\* wg.Wait() returns, main logs and sleeps
WaitDone ==
    /\ program \in Pooled
    /\ mpc = "wait"
    /\ \A k \in Keys : wpc[k] \in {"idle", "done"}
    /\ mpc' = "sleep"
    /\ UNCHANGED <<envVars, lk, pkg, fnVars, msgVars, registrations, regVars, crawledRelays, passes, seedGot, seedEose, relaysToCrawl,
                   dispatched, sem, wpc, tries, got, recVars, histVars>>

\* time.Sleep is over: the next iteration of main's loop
SleepDone ==
    /\ program \in Pooled
    /\ mpc = "sleep"
    /\ mpc' = "req"
    /\ UNCHANGED <<envVars, lk, pkg, fnVars, msgVars, registrations, regVars, crawledRelays, passes, seedGot, seedEose, relaysToCrawl,
                   dispatched, sem, wpc, tries, got, recVars, histVars>>

---------------------------------------------------------------------------
(* the worker goroutine of crawlClearOnlineRelays: src/crawl.go:190-216,     *)
(* src/crawlr2/main.go:219-239, src/unnamed/part_010:158-187                 *)

\* the workers of crawl.go call attemptCrawl, which reads one message and
\* registers nothing (src/crawl.go:253-276); the others call ReqKind10002
WorkerParses == program \in {"crawlr2", "part010"}

\* the loop condition i < maxTries holds: attemptCrawl(r) / ReqKind10002(r) starts
AttemptStart(r) ==
    /\ program \in Pooled
    /\ wpc[r] = "loop"
    /\ tries[r] < maxTries
    /\ wpc' = [wpc EXCEPT ![r] = "fetch"]
    /\ got' = [got EXCEPT ![r] = FALSE]
    /\ inflight' = Bump(inflight, r)
    /\ attempts' = Bump(attempts, r)
    /\ UNCHANGED <<envVars, lk, pkg, fnVars, msgVars, registrations, regVars, crawledRelays, mpc, passes, seedGot, seedEose,
                   relaysToCrawl, dispatched, sem, tries, recVars, succeeded>>

\* the relay's event arrives in ReqKind10002: parseRelayList
AttemptRecv(r) ==
    /\ program \in Pooled
    /\ WorkerParses
    /\ wpc[r] = "fetch"
    /\ r \notin silent
    /\ ~got[r]
    /\ got' = [got EXCEPT ![r] = TRUE]
    /\ Register(Advertised(r))
    /\ UNCHANGED <<envVars, lk, pkg, fnVars, msgVars, clearOffline, crawledRelays, mpc, passes, seedGot, seedEose,
                   relaysToCrawl, dispatched, sem, wpc, tries, recVars, histVars>>

\* err == nil (EOSE or EOF, after the event if the fetch parses events):
\* crawledRelays[r] = true; break
AttemptOk(r) ==
    /\ program \in Pooled
    /\ wpc[r] = "fetch"
    /\ r \notin silent
    /\ WorkerParses => got[r]
    /\ crawledRelays' = crawledRelays \cup {r}
    /\ wpc' = [wpc EXCEPT ![r] = "break"]
    /\ inflight' = Drop(inflight, r)
    /\ succeeded' = succeeded \cup {r}
    /\ UNCHANGED <<envVars, lk, pkg, fnVars, msgVars, registrations, regVars, mpc, passes, seedGot, seedEose, relaysToCrawl, dispatched,
                   sem, tries, got, recVars, attempts>>

\* messages that are neither an event nor EOSE: a JSON array that is too short
\* or starts with another word (["NOTICE", "..."]), and text that is not JSON
OtherMessages == {"notice", "text"}

\* what the worker's fetch does with such a message.  attemptCrawl reads one
\* message: text that is not JSON is an error (src/crawl.go:264-268), any JSON
\* array ends the attempt with nil (src/crawl.go:270-276).  ReqKind10002 skips
\* both and reads on (src/crawlr2/main.go:83-98, src/unnamed/part_010:61-72).
OnOtherMessage(kind) ==
    IF program = "crawl" THEN (IF kind = "text" THEN "fail" ELSE "ok") ELSE "skip"

\* clearOffline[r] = clearOnline[r]; delete(clearOnline, r)
\* a failure that leaves the partitions as they are
MoveOfflineSkipped(r) == UNCHANGED <<clearOffline, clearOnline>>

MoveOffline(r) ==
    /\ clearOffline' = Put(clearOffline, r, Get(clearOnline, r))
    /\ clearOnline' = Delete(clearOnline, r)

\* where a worker goes after the critical section of a failed attempt
AfterFailure(r) ==
    IF program = "crawl" THEN "sleep"                       \* src/crawl.go:205
    ELSE IF program = "part010" /\ tries[r] = maxTries - 1
         THEN "mark"                                        \* part_010:181-185
         ELSE "loop"

\* the attempt has a deadline: context.WithTimeout in attemptCrawl
\* (src/crawl.go:224) and in ReqKind10002 of part_010 (src/unnamed/part_010:17);
\* ReqKind10002 of src/crawlr2/main.go:45-101 has none
HasDeadline == program \in {"crawl", "part010"}

\* The deadline of the attempt elapses while the worker waits in
\* websocket.Message.Receive for a relay that sends nothing: ctx.Done() is
\* only looked at in the select before the next Receive (src/crawl.go:254-259,
\* src/unnamed/part_010:47-54), so the worker stays in Receive
DeadlineElapses(r) ==
    /\ program \in Pooled
    /\ HasDeadline
    /\ wpc[r] = "fetch"
    /\ r \in silent
    /\ wpc' = [wpc EXCEPT ![r] = "late"]
    /\ UNCHANGED <<envVars, lk, pkg, fnVars, msgVars, registrations, regVars, crawledRelays, mpc, passes, seedGot,
                   seedEose, relaysToCrawl, dispatched, sem, tries, got, recVars, histVars>>

\* err != nil: the dial or the send failed, or Receive returned an error
AttemptFail(r) ==
    /\ program \in Pooled
    /\ wpc[r] = "fetch"
    /\ r \notin silent
    /\ MoveOffline(r)
    /\ crawledRelays' = IF program = "crawl" THEN crawledRelays \cup {r}
                        ELSE crawledRelays              \* src/crawl.go:202
    /\ wpc' = [wpc EXCEPT ![r] = AfterFailure(r)]
    /\ tries' = [tries EXCEPT ![r] = IF AfterFailure(r) = "loop" THEN @ + 1 ELSE @]
    /\ inflight' = Drop(inflight, r)
    /\ UNCHANGED <<envVars, lk, pkg, fnVars, msgVars, registrations, clearAPI, onion, local, malformed, mpc, passes, seedGot, seedEose,
                   relaysToCrawl, dispatched, sem, got, recVars, attempts, succeeded>>

\* the relay sends a message that is neither an event nor EOSE to a worker
AttemptOther(r, kind) ==
    /\ program \in Pooled
    /\ wpc[r] = "fetch"
    /\ r \notin silent
    /\ r \notin DOMAIN noise
    /\ noise' = Put(noise, r, kind)
    /\ CASE OnOtherMessage(kind) = "skip" ->
             UNCHANGED <<regVars, crawledRelays, wpc, tries, inflight, succeeded>>
         [] OnOtherMessage(kind) = "ok" ->
             /\ crawledRelays' = crawledRelays \cup {r}
             /\ wpc' = [wpc EXCEPT ![r] = "break"]
             /\ inflight' = Drop(inflight, r)
             /\ succeeded' = succeeded \cup {r}
             /\ UNCHANGED <<regVars, tries>>
         [] OnOtherMessage(kind) = "fail" ->
             /\ MoveOffline(r)
             /\ crawledRelays' = crawledRelays \cup {r}
             /\ wpc' = [wpc EXCEPT ![r] = AfterFailure(r)]
             /\ inflight' = Drop(inflight, r)
             /\ UNCHANGED <<clearAPI, onion, local, malformed, tries, succeeded>>
    /\ UNCHANGED <<envVars, lk, pkg, fnVars, exitpc, exported, registrations, mpc, passes, seedGot,
                   seedEose, relaysToCrawl, dispatched, sem, got, recVars, attempts>>

\* time.Sleep(backoffDuration) is over: i++
SleepEnd(r) ==
    /\ program \in Pooled
    /\ wpc[r] = "sleep"
    /\ wpc' = [wpc EXCEPT ![r] = "loop"]
    /\ tries' = [tries EXCEPT ![r] = @ + 1]
    /\ UNCHANGED <<envVars, lk, pkg, fnVars, msgVars, registrations, regVars, crawledRelays, mpc, passes, seedGot, seedEose,
                   relaysToCrawl, dispatched, sem, got, recVars, histVars>>

\* part_010:181-185: if i == maxTries-1 { crawledRelays[r] = true }; i++
MarkLast(r) ==
    /\ program \in Pooled
    /\ wpc[r] = "mark"
    /\ crawledRelays' = crawledRelays \cup {r}
    /\ wpc' = [wpc EXCEPT ![r] = "loop"]
    /\ tries' = [tries EXCEPT ![r] = @ + 1]
    /\ UNCHANGED <<envVars, lk, pkg, fnVars, msgVars, registrations, regVars, mpc, passes, seedGot, seedEose, relaysToCrawl, dispatched,
                   sem, got, recVars, histVars>>

\* the loop is left (break, or i == maxTries): <-sem and wg.Done() run deferred
\* a worker that ends without receiving from sem
SlotKept == sem

\* the deferred <-sem (src/crawl.go:192)
SlotReleased == sem - 1

WorkerExit(r) ==
    /\ program \in Pooled
    /\ \/ wpc[r] = "break"
       \/ wpc[r] = "loop" /\ tries[r] >= maxTries
    /\ wpc' = [wpc EXCEPT ![r] = "done"]
    /\ tries' = [tries EXCEPT ![r] = 0]
    /\ got' = [got EXCEPT ![r] = FALSE]
    /\ sem' = SlotReleased
    /\ UNCHANGED <<envVars, lk, pkg, fnVars, msgVars, registrations, regVars, crawledRelays, mpc, passes, seedGot, seedEose,
                   relaysToCrawl, dispatched, recVars, histVars>>

---------------------------------------------------------------------------
(* The recursive crawler: src/main.go:26-393 *)

\* src/main.go:36
maxRetries == 2

\* normalizeURL of src/main.go:52-54: strings.TrimSuffix(strings.ToLower(url), "/")
normalizeURLTrimSuffix(u) ==
    LET l == [i \in 1..Len(u) |-> LowerTok(u[i])]
    IN  IF Len(l) > 0 /\ l[Len(l)] = "/" THEN SubSeq(l, 1, Len(l) - 1) ELSE l

PrivateIPToks == {"192.168.1.5", "127.0.0.1"}

\* src/main.go:91-101
shouldExcludeRelay(relayURL) ==
    LET hostname == Hostname(relayURL)
    IN  \/ HasSuffixTok(hostname, ".onion")
        \/ HasSuffixTok(hostname, ".local")
        \/ Len(hostname) > 0 /\ hostname[1] \in PrivateIPToks

\* a CrawlRelay goroutine: not running, or in its retry loop
Idle == [pc |-> "idle", retry |-> 0, by |-> <<>>, seed |-> FALSE, pos |-> 0, maxDepth |-> 0]
Returned == [Idle EXCEPT !.pc = "done"]

startingPoint == <<"starting-point">>

\* the relay URLs main reads from the checkpoint: the first field of every
\* row after the header, whatever its Offline field says (src/main.go:309-331)
readRelaysFromCSV(records) == [i \in 1..Len(records) |-> records[i].url]

\* main starts a CrawlRelay(r, r, 3) per relay of the checkpoint, or the crawl
\* of the default seed when it has none (src/main.go:349-367), and waits
RecStart ==
    LET relaysFromCSV == readRelaysFromCSV(checkpoint)
    IN  /\ program = "recursive"
        /\ mpc = "start"
        /\ mpc' = "wgwait"
        /\ calls' = IF Len(relaysFromCSV) > 0
                    THEN {[url |-> relaysFromCSV[i], by |-> relaysFromCSV[i], depth |-> 3,
                           seed |-> TRUE] : i \in 1..Len(relaysFromCSV)}
                    ELSE {[url |-> initialRelay, by |-> startingPoint, depth |-> 3,
                           seed |-> TRUE]}
        /\ wg' = Cardinality(calls')
    /\ UNCHANGED <<envVars, lk, pkg, fnVars, msgVars, registrations, regVars, crawledRelays, passes, seedGot, seedEose, relaysToCrawl,
                   dispatched, sem, wpc, tries, got, relays, offlineRelays, crawler,
                   histVars>>

\* the checks of CrawlRelay that make it return at once (src/main.go:104-116)
Refused(c) ==
    \/ c.depth <= 0
    \/ ~(Len(c.url) > 0 /\ c.url[1] = "wss://")
    \/ shouldExcludeRelay(c.url)

\* the check of crawledRelays under crawledMutex (src/main.go:120-126)
\* CrawlRelay without the test of crawledRelays
NeverAlreadyCrawled(normalizedRelayURL) == FALSE

AlreadyCrawled(normalizedRelayURL) == normalizedRelayURL \in crawledRelays

\* A CrawlRelay goroutine runs up to its retry loop: src/main.go:103-128
CrawlEnter(c) ==
    LET normalizedRelayURL == normalizeURLTrimSuffix(c.url)
        returns == Refused(c) \/ AlreadyCrawled(normalizedRelayURL)
    IN  /\ program = "recursive"
        /\ c \in calls
        /\ calls' = calls \ {c}
        /\ IF returns
           THEN /\ wg' = IF c.seed THEN wg - 1 ELSE wg
                /\ UNCHANGED <<crawledRelays, crawler>>
           ELSE /\ crawledRelays' = crawledRelays \cup {normalizedRelayURL}
                /\ crawler' = [crawler EXCEPT ![normalizedRelayURL] =
                                   [pc |-> "loop", retry |-> 0, by |-> c.by,
                                    seed |-> c.seed, pos |-> 0, maxDepth |-> c.depth]]
                /\ wg' = wg
        /\ UNCHANGED <<envVars, lk, pkg, fnVars, msgVars, registrations, regVars, poolVars, relays, offlineRelays, histVars>>

\* retry < maxRetries: connectAndFetch(normalizedRelayURL, discoveredBy) starts
RAttemptStart(k) ==
    /\ program = "recursive"
    /\ crawler[k].pc = "loop"
    /\ crawler[k].retry < maxRetries
    /\ crawler' = [crawler EXCEPT ![k].pc = "fetch", ![k].pos = 0]
    /\ inflight' = Bump(inflight, k)
    /\ attempts' = Bump(attempts, k)
    /\ UNCHANGED <<envVars, lk, pkg, fnVars, msgVars, registrations, regVars, crawledRelays, poolVars, relays, offlineRelays,
                   calls, wg, succeeded>>

\* the relay URL parseRelayList makes of a tag: scheme://hostname (src/main.go:264-268)
StripToHost(u) == <<u[1]>> \o Hostname(u)

\* parseRelayList skips the tag (src/main.go:253-261)
SkipsTag(u) == HasSuffixTok(u, ".onion") \/ ~HasWsPrefix(u)

\* the relays map after parseRelayList has counted the tags (src/main.go:270-281)
RECURSIVE CountRelays(_, _, _)
CountRelays(rel, tags, initiatingRelay) ==
    IF tags = <<>> THEN rel
    ELSE LET relayURL == StripToHost(Head(tags))
             counted ==
                 IF SkipsTag(Head(tags)) THEN rel
                 ELSE IF relayURL \in DOMAIN rel
                      THEN [rel EXCEPT ![relayURL].Count = @ + 1]
                      ELSE Put(rel, relayURL,
                               [Count |-> 1, DiscoveredBy |-> initiatingRelay])
         IN  CountRelays(counted, Tail(tags), initiatingRelay)

\* the goroutines parseRelayList starts: go CrawlRelay(relayURL, initiatingRelay, 2)
\* for each tag whose relayURL is not in crawledRelays (src/main.go:284-295)
SpawnedCrawls(tags, initiatingRelay) ==
    {[url |-> StripToHost(tags[i]), by |-> initiatingRelay, depth |-> 2, seed |-> FALSE] :
        i \in {j \in 1..Len(tags) :
                  ~SkipsTag(tags[j]) /\ StripToHost(tags[j]) \notin crawledRelays}}

\* The relay's event arrives and parseRelayList handles it: src/main.go:199-203, 219-307
RParseEvent(k) ==
    /\ program = "recursive"
    /\ crawler[k].pc = "fetch"
    /\ k \notin silent
    /\ crawler[k].pos = 0
    /\ crawler' = [crawler EXCEPT ![k].pos = 1]
    /\ relays' = CountRelays(relays, Advertised(k), crawler[k].by)
    /\ calls' = calls \cup SpawnedCrawls(Advertised(k), crawler[k].by)
    /\ registrations' =
           Noted(registrations,
                 SelectSeq([i \in 1..Len(Advertised(k)) |->
                               IF SkipsTag(Advertised(k)[i]) THEN <<>>
                               ELSE StripToHost(Advertised(k)[i])],
                           LAMBDA u : u # <<>>))
    /\ UNCHANGED <<envVars, lk, pkg, fnVars, msgVars, regVars, crawledRelays, poolVars, offlineRelays, wg,
                   histVars>>

\* connectAndFetch returns nil (the reader ended before the timeout): CrawlRelay returns
RFetchOk(k) ==
    /\ program = "recursive"
    /\ crawler[k].pc = "fetch"
    /\ k \notin silent
    /\ crawler[k].pos = 1
    /\ crawler' = [crawler EXCEPT ![k] = Returned]
    /\ wg' = IF crawler[k].seed THEN wg - 1 ELSE wg
    /\ inflight' = Drop(inflight, k)
    /\ succeeded' = succeeded \cup {k}
    /\ UNCHANGED <<envVars, lk, pkg, fnVars, msgVars, registrations, regVars, crawledRelays, poolVars, relays, offlineRelays,
                   calls, attempts>>

\* CrawlRelay sleeps after this failure (src/main.go:134-137)
SleepsAfter(retry) == retry < maxRetries - 1

\* connectAndFetch returns an error (dial error or timeout)
RFetchFail(k) ==
    /\ program = "recursive"
    /\ crawler[k].pc = "fetch"
    /\ crawler' = IF SleepsAfter(crawler[k].retry)
                  THEN [crawler EXCEPT ![k].pc = "sleep"]
                  ELSE [crawler EXCEPT ![k].pc = "loop", ![k].retry = @ + 1]
    /\ inflight' = Drop(inflight, k)
    /\ UNCHANGED <<envVars, lk, pkg, fnVars, msgVars, registrations, regVars, crawledRelays, poolVars, relays, offlineRelays,
                   calls, wg, attempts, succeeded>>

\* time.Sleep(retryDelay) is over: retry++
RSleepEnd(k) ==
    /\ program = "recursive"
    /\ crawler[k].pc = "sleep"
    /\ crawler' = [crawler EXCEPT ![k].pc = "loop", ![k].retry = @ + 1]
    /\ UNCHANGED <<envVars, lk, pkg, fnVars, msgVars, registrations, regVars, crawledRelays, poolVars, relays, offlineRelays,
                   calls, wg, histVars>>

\* the loop ends with retry == maxRetries: markRelayOffline (src/main.go:143-144)
RGiveUp(k) ==
    /\ program = "recursive"
    /\ crawler[k].pc = "loop"
    /\ crawler[k].retry >= maxRetries
    /\ offlineRelays' = offlineRelays \cup {k}
    /\ crawler' = [crawler EXCEPT ![k] = Returned]
    /\ wg' = IF crawler[k].seed THEN wg - 1 ELSE wg
    /\ UNCHANGED <<envVars, lk, pkg, fnVars, msgVars, registrations, regVars, crawledRelays, poolVars, relays, calls, histVars>>

\* src/main.go:147-161
allOnlineRelaysCrawled ==
    \A relayURL \in DOMAIN relays :
        relayURL \in offlineRelays \/ relayURL \in crawledRelays

\* wg.Wait() returns (src/main.go:370)
RecWgDone ==
    /\ program = "recursive"
    /\ mpc = "wgwait"
    /\ wg = 0
    /\ mpc' = "poll"
    /\ UNCHANGED <<envVars, lk, pkg, fnVars, msgVars, registrations, regVars, crawledRelays, passes, seedGot, seedEose, relaysToCrawl,
                   dispatched, sem, wpc, tries, got, recVars, histVars>>

\* allOnlineRelaysCrawled() is true: close(crawlComplete) (src/main.go:372-375)
RecComplete ==
    /\ program = "recursive"
    /\ mpc = "poll"
    /\ allOnlineRelaysCrawled
    /\ mpc' = "complete"
    /\ UNCHANGED <<envVars, lk, pkg, fnVars, msgVars, registrations, regVars, crawledRelays, passes, seedGot, seedEose, relaysToCrawl,
                   dispatched, sem, wpc, tries, got, recVars, histVars>>

NextRec ==
    \/ RecStart
    \/ \E c \in calls : CrawlEnter(c)
    \/ \E k \in Keys : RAttemptStart(k)
    \/ \E k \in Keys : RParseEvent(k)
    \/ \E k \in Keys : RFetchOk(k)
    \/ \E k \in Keys : RFetchFail(k)
    \/ \E k \in Keys : RSleepEnd(k)
    \/ \E k \in Keys : RGiveUp(k)
    \/ RecWgDone
    \/ RecComplete

NextPool ==
    \/ SeedStart
    \/ SeedRecv
    \/ SeedEose
    \/ SeedEnd
    \/ TakeSnapshot
    \/ \E r \in Keys : Dispatch(r)
    \/ DispatchDone
    \/ \E r \in Keys : AttemptStart(r)
    \/ \E r \in Keys : AttemptRecv(r)
    \/ \E r \in Keys : AttemptOk(r)
    \/ \E r \in Keys : AttemptFail(r)
    \/ \E r \in Keys : SleepEnd(r)
    \/ \E r \in Keys : MarkLast(r)
    \/ \E r \in Keys : WorkerExit(r)
    \/ WaitDone
    \/ SleepDone

---------------------------------------------------------------------------

Programs == Pooled \cup {"recursive"}

InitEnv(graphs, silents, events, files) ==
    /\ program \in Programs
    /\ checkpoint \in files
    /\ graph \in graphs
    /\ silent \in silents
    /\ concurrency \in IF program \in Pooled THEN 1..MaxConcurrency ELSE {1}
    /\ clearOnline = EmptyMap
    /\ clearOffline = EmptyMap
    /\ clearAPI = EmptyMap
    /\ onion = EmptyMap
    /\ local = EmptyMap
    /\ malformed = EmptyMap
    /\ crawledRelays = {}
    /\ mpc = IF program \in Pooled THEN "req" ELSE "start"
    /\ passes = 0
    /\ seedGot = FALSE
    /\ seedEose = FALSE
    /\ relaysToCrawl = {}
    /\ dispatched = {}
    /\ sem = 0
    /\ wpc = [k \in Keys |-> "idle"]
    /\ tries = [k \in Keys |-> 0]
    /\ got = [k \in Keys |-> FALSE]
    /\ relays = EmptyMap
    /\ offlineRelays = {}
    /\ calls = {}
    /\ crawler = [k \in Keys |-> Idle]
    /\ wg = 0
    /\ classifyIn = <<>>
    /\ classifyCalls = 0
    /\ eventTags \in events
    /\ eventParsed = FALSE
    /\ registrations = EmptyMap
    /\ noise = EmptyMap
    /\ exitpc = "run"
    /\ exported = <<>>
    /\ inflight = [k \in Keys |-> 0]
    /\ attempts = [k \in Keys |-> 0]
    /\ succeeded = {}
    \* src/crawl/init.go:14-34: empty maps, counters 0; no goroutine yet
    /\ pkg = [Relays |-> {}, CrawledRelays |-> {}, OfflineRelays |-> {},
              foundRelaysCount |-> 0, crawledRelaysCount |-> 0, offlineRelaysCount |-> 0,
              RemainingRelaysCount |-> 0,
              started |-> FALSE, spawned |-> {}, fetching |-> {}, storing |-> {}, parsed |-> 0]
    /\ lk = [g \in Goroutines |-> [pos |-> 0, arrived |-> FALSE]]

\* every relay answers or fails
InitGraphs(graphs) == InitEnv(graphs, {{}}, {<<>>}, {<<>>})

Init == InitGraphs(Graphs)

MaxRows == 2

\* the rows a relay log file of an earlier run can hold: writeToCSV writes the
\* URL of each record and whether it is in offlineRelays (src/main.go:70-86)
Checkpoints ==
    {<<>>} \cup
    UNION {{rows \in [1..n -> [url : {relayA, relayB}, offline : BOOLEAN]] :
               \A i \in 1..n : \A j \in 1..n : rows[i].url = rows[j].url => i = j} :
           n \in 1..MaxRows}

\* the recursive crawler started with a relay log file of an earlier run
InitCheckpoint == InitEnv({"fan"}, {{}}, {<<>>}, Checkpoints) /\ program = "recursive"
SpecCheckpoint == InitCheckpoint /\ [][NextRec]_vars

Next == NextPool \/ NextRec

Spec == Init /\ [][Next]_vars

\* the pooled scheduler alone
InitPool == Init /\ program \in Pooled

\* The pooled scheduler under fair scheduling: a goroutine that can take a step
\* is scheduled, and a relay of the closed graph answers or its connection
\* fails, so no step stays enabled forever without being taken.
FairSpec == InitPool /\ [][NextPool]_vars /\ WF_vars(NextPool)

\* the run in which the seed advertises a ws:// relay
SpecMixed == InitGraphs({"mixed"}) /\ [][Next]_vars

\* the files finalize writes, in its order (src/crawlr2/utils.go:298-305)
FinalizeOrder == <<"clearOnline", "clearOffline", "clearAPI", "onion", "local", "malformed">>

\* the exit signal arrives: main leaves <-exitSignal and calls finalize while
\* the loop goroutine and the workers go on (src/main.go:482-485)
ExitSignal ==
    /\ program \in Pooled
    /\ exitpc = "run"
    /\ exitpc' = "finalize"
    /\ UNCHANGED <<envVars, lk, pkg, fnVars, noise, exported, registrations, regVars, crawledRelays,
                   poolVars, recVars, histVars>>

\* exportToCSV(category, relayList): finalize ranges over the next map without
\* holding mu (src/crawlr2/utils.go:272-295).  While a goroutine writes the
\* maps the read is a data race: it yields the rows of the map as it stands,
\* or the runtime ends the process (concurrent map iteration and map write).
\* After the last file main returns and the process exits.  The goroutines
\* that write the maps are main's loop inside ReqKind10002(initialRelay) and
\* the workers.
ExportToCSV ==
    LET category == FinalizeOrder[Len(exported) + 1]
        writers == (IF mpc = "reqRun" THEN {seedKey} ELSE {})
                       \cup {r \in Keys : wpc[r] \notin {"idle", "done"}}
        relayList == IF category = "clearOffline" THEN clearOffline ELSE Parts[category]
    IN  /\ exitpc = "finalize"
        /\ \/ /\ exported' = Append(exported, [category |-> category, rows |-> relayList])
              /\ exitpc' = IF Len(exported') = Len(FinalizeOrder) THEN "exited" ELSE "finalize"
           \/ /\ writers # {}
              /\ exitpc' = "fatal"
              /\ exported' = exported
        /\ UNCHANGED <<envVars, lk, pkg, fnVars, noise, registrations, regVars, crawledRelays,
                       poolVars, recVars, histVars>>

\* the pooled scheduler until the process ends, with the exit signal
NextFinalize ==
    \/ exitpc \in {"run", "finalize"} /\ NextPool
    \/ ExitSignal
    \/ ExportToCSV

InitFinalize == InitGraphs({"mixed"}) /\ program \in Pooled
SpecFinalize == InitFinalize /\ [][NextFinalize]_vars

\* the run in which relay a accepts connections, sends nothing and never closes
NextSilent == Next \/ \E r \in Keys : DeadlineElapses(r)
SpecSilent == InitEnv({"fan"}, {{relayA}}, {<<>>}, {<<>>}) /\ [][NextSilent]_vars

\* the run in which relays also send messages that are no events
NextOther == Next \/ \E r \in Keys, kind \in OtherMessages : AttemptOther(r, kind)
SpecOther == InitGraphs({"fan"}) /\ [][NextOther]_vars

\* the run in which two relays fetched at the same time advertise the same relay
SpecScenarioC == InitGraphs({"scenarioC"}) /\ [][Next]_vars

---------------------------------------------------------------------------
(* classifyRelay on its own (src/crawlr2/utils.go:137-152, src/crawl.go:156-170) *)

\* the strings classifyRelay is called with
ClassifyHosts ==
    {<<"a", ".com">>, <<"A", ".com">>, <<"h", ".local">>, <<"x", ".onion">>, <<"r2">>,
     <<"%zz", ".com">>, <<"127.0.0.1">>, <<"192.168.1.5">>, <<"10.0.0.1">>,
     <<"100.64.0.1">>, <<"8.8.8.8">>}
ClassifyPaths == {<<>>, <<"/">>, <<"/", "filter">>}
ClassifyInputs ==
    {<<"wss://">> \o h \o q : h \in ClassifyHosts, q \in ClassifyPaths}
    \cup {<<s>> \o h : s \in {"ws://", "http://"}, h \in ClassifyHosts}
    \cup {badURL, <<"\"", "wss://", "a", ".com">>}

\* one call classifyRelay(relayURL)
Classify(relayURL) ==
    /\ classifyCalls < MaxClassifyCalls
    /\ LET p == classifyRelay(Parts, relayURL)
       IN  /\ clearOnline' = p.clearOnline
           /\ clearAPI' = p.clearAPI
           /\ onion' = p.onion
           /\ local' = p.local
           /\ malformed' = p.malformed
    /\ classifyIn' = relayURL
    /\ classifyCalls' = classifyCalls + 1
    /\ UNCHANGED <<envVars, lk, pkg, msgVars, eventTags, eventParsed, registrations, clearOffline,
                   crawledRelays, poolVars, recVars, histVars>>

InitClassify == Init /\ program = "crawl" /\ graph = "chain" /\ concurrency = 1
NextClassify == \E relayURL \in ClassifyInputs : Classify(relayURL)
SpecClassify == InitClassify /\ [][NextClassify]_vars

---------------------------------------------------------------------------
(* parseRelayList on its own: the tags of an event (src/crawl.go:110-153) *)

\* an element of a tag: a JSON string, or a value of another type
Str(u) == [str |-> TRUE, val |-> u]
NotStr == [str |-> FALSE, val |-> <<>>]
\* a tag: a JSON array of elements, or a value of another type
Arr(elems) == [arr |-> TRUE, elems |-> elems]
NotArr == [arr |-> FALSE, elems |-> <<>>]

\* the tags an event is made of
TagShapes ==
    {Arr(<<Str(<<"r">>), Str(u)>>) : u \in {relayA, rawA, onionURL}}
    \cup {Arr(<<Str(<<"r">>), Str(relayA), Str(<<"read">>)>>),
          Arr(<<Str(<<"p">>), Str(relayB)>>),
          Arr(<<Str(<<"r">>)>>),
          Arr(<<Str(<<"r">>), NotStr>>),
          NotArr}
EventTags == UNION {[1..n -> TagShapes] : n \in 0..MaxTags}

\* the collection of relayURLs without the test tagArr[0] == "r"
relayURLsOfAnyTag(tags) ==
    LET taken == SelectSeq(tags, LAMBDA tag :
                     tag.arr /\ Len(tag.elems) >= 2 /\ tag.elems[2].str)
    IN  [i \in 1..Len(taken) |-> taken[i].elems[2].val]

\* the relayURLs parseRelayList collects from the tags (src/crawl.go:132-142)
relayURLsOf(tags) ==
    LET taken == SelectSeq(tags, LAMBDA tag :
                     /\ tag.arr /\ Len(tag.elems) >= 2
                     /\ tag.elems[1] = Str(<<"r">>)
                     /\ tag.elems[2].str)
    IN  [i \in 1..Len(taken) |-> taken[i].elems[2].val]

\* parseRelayList(message) for an event with the tags eventTags
ParseEvent ==
    /\ ~eventParsed
    /\ eventParsed' = TRUE
    /\ Register(relayURLsOf(eventTags))
    /\ UNCHANGED <<envVars, lk, pkg, msgVars, classifyIn, classifyCalls, eventTags, clearOffline,
                   crawledRelays, poolVars, recVars, histVars>>

InitParse ==
    InitEnv({"chain"}, {{}}, EventTags, {<<>>}) /\ program = "crawl" /\ concurrency = 1
SpecParse == InitParse /\ [][ParseEvent]_vars

MaxLen == 4

\* normalizeURL on its own: it is applied to a string of up to MaxLen tokens,
\* and then to its own result, as when a key written to a checkpoint is read
\* back and normalized again.  The recursive crawler and the crawl package trim
\* with TrimSuffix (src/main.go:52-54, src/crawl/init.go:98-101), the pooled
\* programs with TrimRight (src/crawlr2/utils.go:154-158).
Normalize ==
    LET inputs == UNION {[1..n -> {"wss://", "A", ".com", "/"}] : n \in 0..MaxLen}
    IN  /\ classifyCalls < MaxClassifyCalls
        /\ classifyCalls' = classifyCalls + 1
        /\ \E u \in (IF classifyCalls = 0 THEN inputs ELSE {classifyIn}) :
               classifyIn' = IF program = "recursive" THEN normalizeURLTrimSuffix(u)
                             ELSE normalizeURL(u)
        /\ UNCHANGED <<envVars, lk, pkg, msgVars, eventTags, eventParsed, registrations, regVars,
                       crawledRelays, poolVars, recVars, histVars>>

SpecNormalize == InitGraphs({"chain"}) /\ [][Normalize]_vars

(* The crawl package: src/crawl/init.go, src/crawl/parse.go.  Its
   normalizeURL and shouldExcludeRelay are those of src/main.go word for word
   (on strings url.Parse accepts), and Parse builds scheme://hostname as
   parseRelayList does, so normalizeURLTrimSuffix, shouldExcludeRelay and
   StripToHost stand for them.  pkg.spawned holds the arguments of the Init
   goroutines started that have not run yet, pkg.fetching the relays whose
   Init is in Fetch, pkg.storing the Init goroutines between the load and the
   store of offlineRelaysCount++ (no lock is held there), each with the value
   it loaded. *)

\* the tags Parse is given over the whole run
MaxParsed == 3

\* src/crawl/init.go:195-204
UpdateStatus(p) ==
    [p EXCEPT !.RemainingRelaysCount = p.foundRelaysCount - p.crawledRelaysCount]

\* main starts the crawl from a relay of the CSV file or from wss://nos.lol:
\* src/unnamed/part_007:121-140
MainStart ==
    /\ ~pkg.started
    /\ \E r \in {initialRelay, rawA} :
           pkg' = [pkg EXCEPT !.started = TRUE, !.spawned = {r}]
    /\ UNCHANGED <<envVars, lk, fnVars, msgVars, registrations, regVars, crawledRelays, poolVars,
                   recVars, histVars>>

\* Init up to its call of Fetch: src/crawl/init.go:112-133 (maxDepth is 2 or 3
\* in every call)
crawlInit ==
    /\ \E relayURL \in pkg.spawned :
           LET normalizedRelayURL == normalizeURLTrimSuffix(relayURL)
               p == [pkg EXCEPT !.spawned = @ \ {relayURL}]
           IN  pkg' = IF shouldExcludeRelay(normalizedRelayURL)
                      THEN [p EXCEPT !.OfflineRelays = @ \cup {normalizedRelayURL}]
                      ELSE IF normalizedRelayURL \in p.CrawledRelays THEN p
                      ELSE [p EXCEPT !.CrawledRelays = @ \cup {normalizedRelayURL},
                                     !.crawledRelaysCount = @ + 1,
                                     !.fetching = @ \cup {normalizedRelayURL}]
    /\ UNCHANGED <<envVars, lk, fnVars, msgVars, registrations, regVars, crawledRelays, poolVars,
                   recVars, histVars>>

\* Parse handles one tag of an event of a relay that is being fetched: one
\* turn of the loop of src/crawl/parse.go:34-94
Parse ==
    /\ pkg.fetching # {}
    /\ pkg.parsed < MaxParsed
    /\ \E relayURL \in {relayA, rawA, onionURL, badURL} :
           LET p == [pkg EXCEPT !.parsed = @ + 1]
               key == StripToHost(relayURL)
               counted == UpdateStatus(
                   [p EXCEPT !.Relays = @ \cup {key},
                             !.foundRelaysCount = IF key \in p.Relays THEN @ ELSE @ + 1])
           IN  pkg' = IF shouldExcludeRelay(relayURL)
                      THEN UpdateStatus([p EXCEPT !.OfflineRelays = @ \cup {relayURL},
                                                  !.offlineRelaysCount = @ + 1])
                      ELSE IF ~HasWsPrefix(relayURL) THEN p
                      ELSE IF key \in counted.CrawledRelays THEN counted
                      ELSE [counted EXCEPT !.spawned = @ \cup {key}]
    /\ UNCHANGED <<envVars, lk, fnVars, msgVars, registrations, regVars, crawledRelays, poolVars,
                   recVars, histVars>>

\* Fetch returns (maxRetries is 1 in the package: one call).  With an error,
\* Init marks the relay offline and loads offlineRelaysCount:
\* src/crawl/init.go:136-151
FetchEnd ==
    /\ \E k \in pkg.fetching, success \in BOOLEAN :
           LET p == [pkg EXCEPT !.fetching = @ \ {k}]
           IN  pkg' = IF success THEN UpdateStatus(p)
                      ELSE [p EXCEPT !.OfflineRelays = @ \cup {k},
                                     !.storing = @ \cup {<<k, p.offlineRelaysCount>>}]
    /\ UNCHANGED <<envVars, lk, fnVars, msgVars, registrations, regVars, crawledRelays, poolVars,
                   recVars, histVars>>

\* the store of offlineRelaysCount++, then UpdateStatus: src/crawl/init.go:151-155
StoreOffline ==
    /\ \E s \in pkg.storing :
           pkg' = UpdateStatus([pkg EXCEPT !.storing = @ \ {s},
                                           !.offlineRelaysCount = s[2] + 1])
    /\ UNCHANGED <<envVars, lk, fnVars, msgVars, registrations, regVars, crawledRelays, poolVars,
                   recVars, histVars>>

NextPkg == MainStart \/ crawlInit \/ Parse \/ FetchEnd \/ StoreOffline

InitPkg == InitGraphs({"chain"}) /\ program = "recursive"
SpecPkg == InitPkg /\ [][NextPkg]_vars

(* The locks of the crawl package: StatusMutex is a sync.Mutex, RelaysMutex,
   CrawledMutex and OfflineMutex are sync.RWMutex (src/crawl/init.go:22-27).
   Each goroutine runs the lock operations of its function in program order,
   again and again.  A goroutine that has called Lock waits until no goroutine
   holds the lock; from that call on RLock of the same lock waits too, as
   sync.RWMutex keeps new readers out while a writer waits. *)

\* allOnlineRelaysCrawled taking OfflineMutex and CrawledMutex without RelaysMutex
ScriptUngated(g) ==
    CASE g = "ResetRelayData" ->
           <<<<"Lock", "Relays">>, <<"Lock", "Crawled">>, <<"Lock", "Offline">>,
             <<"Unlock", "Offline">>, <<"Unlock", "Crawled">>, <<"Unlock", "Relays">>>>
      [] g \in {"Init", "Init2"} ->
           <<<<"Lock", "Crawled">>, <<"Unlock", "Crawled">>,
             <<"Lock", "Offline">>, <<"Unlock", "Offline">>,
             <<"Lock", "Status">>, <<"Unlock", "Status">>>>
      [] g = "Parse" ->
           <<<<"Lock", "Relays">>, <<"Lock", "Offline">>, <<"Unlock", "Offline">>,
             <<"Unlock", "Relays">>, <<"Lock", "Status">>, <<"Unlock", "Status">>,
             <<"Lock", "Relays">>, <<"Unlock", "Relays">>,
             <<"Lock", "Status">>, <<"Unlock", "Status">>,
             <<"Lock", "Crawled">>, <<"Unlock", "Crawled">>>>
      [] g = "ContinueCrawl" ->
           <<<<"RLock", "Relays">>, <<"RLock", "Crawled">>,
             <<"RUnlock", "Crawled">>, <<"RUnlock", "Relays">>>>
      [] g = "allOnlineRelaysCrawled" ->
           <<<<"RLock", "Offline">>, <<"RLock", "Crawled">>,
             <<"RUnlock", "Crawled">>, <<"RUnlock", "Offline">>>>
      [] g = "writeToCSV" ->
           <<<<"RLock", "Relays">>, <<"RLock", "Offline">>,
             <<"RUnlock", "Offline">>, <<"RUnlock", "Relays">>>>

Script(g) ==
    CASE g = "ResetRelayData" ->       \* src/crawl/init.go:43-63
           <<<<"Lock", "Relays">>, <<"Lock", "Crawled">>, <<"Lock", "Offline">>,
             <<"Unlock", "Offline">>, <<"Unlock", "Crawled">>, <<"Unlock", "Relays">>>>
      [] g \in {"Init", "Init2"} ->    \* src/crawl/init.go:126-155, 104-109, 195-204
           <<<<"Lock", "Crawled">>, <<"Unlock", "Crawled">>,
             <<"Lock", "Offline">>, <<"Unlock", "Offline">>,
             <<"Lock", "Status">>, <<"Unlock", "Status">>>>
      [] g = "Parse" ->                \* src/crawl/parse.go:46-51 then 67-88
           <<<<"Lock", "Relays">>, <<"Lock", "Offline">>, <<"Unlock", "Offline">>,
             <<"Unlock", "Relays">>, <<"Lock", "Status">>, <<"Unlock", "Status">>,
             <<"Lock", "Relays">>, <<"Unlock", "Relays">>,
             <<"Lock", "Status">>, <<"Unlock", "Status">>,
             <<"Lock", "Crawled">>, <<"Unlock", "Crawled">>>>
      [] g = "ContinueCrawl" ->        \* src/crawl/init.go:161-163, 183-185
           <<<<"RLock", "Relays">>, <<"RLock", "Crawled">>,
             <<"RUnlock", "Crawled">>, <<"RUnlock", "Relays">>>>
      [] g = "allOnlineRelaysCrawled" ->   \* src/unnamed/part_008:99-113
           <<<<"RLock", "Relays">>, <<"RLock", "Offline">>, <<"RLock", "Crawled">>,
             <<"RUnlock", "Crawled">>, <<"RUnlock", "Offline">>, <<"RUnlock", "Relays">>>>
      [] g = "writeToCSV" ->           \* src/unnamed/part_007:32-65
           <<<<"RLock", "Relays">>, <<"RLock", "Offline">>,
             <<"RUnlock", "Offline">>, <<"RUnlock", "Relays">>>>

\* goroutine g cannot make its next lock operation before goroutine h has
\* made one: h holds the lock, or g wants to read and h has called Lock
WaitsFor(g, h) ==
    LET op == Script(g)[lk[g].pos + 1]
        done == {i \in 1..lk[h].pos : Script(h)[i][2] = op[2]}
        held == IF done = {} THEN "Unlock"
                ELSE Script(h)[CHOOSE i \in done : \A j \in done : j <= i][1]
        waiting == lk[h].arrived /\ Script(h)[lk[h].pos + 1][2] = op[2]
    IN  /\ h # g
        /\ CASE op[1] = "Lock" -> lk[g].arrived /\ held \in {"Lock", "RLock"}
              [] op[1] = "RLock" -> held = "Lock" \/ waiting
              [] OTHER -> FALSE

\* one lock operation of g: the call of Lock, or the operation itself
LockStep(g) ==
    /\ \A h \in Goroutines : ~WaitsFor(g, h)
    /\ LET op == Script(g)[lk[g].pos + 1]
       IN  lk' = IF op[1] = "Lock" /\ ~lk[g].arrived
                 THEN [lk EXCEPT ![g].arrived = TRUE]
                 ELSE [lk EXCEPT ![g] = [pos |-> (lk[g].pos + 1) % Len(Script(g)),
                                         arrived |-> FALSE]]
    /\ UNCHANGED <<envVars, pkg, fnVars, msgVars, registrations, regVars, crawledRelays,
                   poolVars, recVars, histVars>>

SpecLocks == InitPkg /\ [][\E g \in Goroutines : LockStep(g)]_vars

\* the error parseRelayList returns for an EVENT message, by the shape of its
\* third element: not an object (src/crawl.go:122-125), or an object whose
\* "tags" is missing or no array (src/crawl.go:128-131); "nil" otherwise
parseRelayListErr(event) ==
    IF event.shape = "notObject" THEN "invalid event data format"
    ELSE IF event.shape \in {"noTags", "tagsNotArray"} THEN "invalid tags format"
    ELSE "nil"

\* a fetch that returns the error of handleMessage: the seed fetch is over
AfterParseReturns(err) == IF err = "nil" THEN "reqRun" ELSE "snapshot"

\* where the fetch is after handleMessage returned err: the error is only
\* logged and the loop goes on to the next Receive (src/crawl.go:79-81)
AfterParse(err) == "reqRun"

\* the seed sends the EVENT message eventTags, well-formed or not, and
\* receiveMessages hands it to handleMessage -> parseRelayList
SeedRecvEvent ==
    LET err == parseRelayListErr(eventTags)
    IN  /\ program \in Pooled
        /\ mpc = "reqRun"
        /\ ~eventParsed
        /\ eventParsed' = TRUE
        /\ IF err = "nil"
           THEN Register(relayURLsOf(eventTags.tags))
           ELSE UNCHANGED <<registrations, clearOnline, clearAPI, onion, local, malformed>>
        /\ mpc' = AfterParse(err)
        /\ inflight' = IF mpc' = "reqRun" THEN inflight ELSE Drop(inflight, seedKey)
        /\ UNCHANGED <<envVars, lk, pkg, msgVars, classifyIn, classifyCalls, eventTags, clearOffline,
                       crawledRelays, passes, seedGot, seedEose, relaysToCrawl, dispatched,
                       sem, wpc, tries, got, recVars, attempts, succeeded>>

\* the run in which the seed also sends one EVENT message of any shape
NextBadEvent == Next \/ SeedRecvEvent
SpecBadEvent ==
    InitEnv({"mixed"}, {{}},
            {[shape |-> sh, tags |-> <<>>] : sh \in {"notObject", "noTags", "tagsNotArray"}}
                \cup {[shape |-> "ok", tags |-> <<Arr(<<Str(<<"r">>), Str(relayB)>>)>>]},
            {<<>>})
        /\ [][NextBadEvent]_vars

---------------------------------------------------------------------------
(* Properties *)

\* the partitions classifyRelay writes, by name
Categories == {"malformed", "local", "onion", "clearAPI", "clearOnline"}
\* the names of the partitions that hold the key n
PartsOf(n) == {c \in Categories : n \in DOMAIN Parts[c]}
\* the key of the last string classifyRelay was called with
LastKey == normalizeURL(classifyIn)
\* the host and the path of a key, read off its tokens
HostToks(n) ==
    IF Len(n) > 0 /\ n[1] \in {"ws://", "wss://", "http://"}
    THEN SelectSeq(Tail(n), LAMBDA t : t \notin {"/", "filter"}) ELSE <<>>
HasPathToks(n) == \E i \in 1..Len(n) : n[i] = "filter"
EndsWith(h, t) == Len(h) > 0 /\ h[Len(h)] = t

Excluded == DOMAIN local \cup DOMAIN onion \cup DOMAIN malformed \cup DOMAIN clearAPI
Registered == DOMAIN clearOnline \cup DOMAIN clearOffline \cup Excluded
Running == {r \in Keys : wpc[r] \notin {"idle", "done"}}
PassFinished == program \in Pooled /\ mpc = "sleep"
\* no relay of clearOnline is left to crawl
completed == \A r \in DOMAIN clearOnline : r \in crawledRelays

\* C1: at most one fetch is in flight for a normalized relay URL, in the pooled
\* scheduler (the seed's fetch by main included) and in the recursive crawler.
OneFetchPerRelay == \A k \in Keys : inflight[k] <= 1

\* a fetch of a relay is in flight while another CrawlRelay of the same relay waits to run
OneFetchPerRelayWitness ==
    \E k \in Keys :
        /\ inflight[k] = 1
        /\ \E c \in calls : ~Refused(c) /\ normalizeURLTrimSuffix(c.url) = k

\* C2: the workers of crawlClearOnlineRelays that are running are as many as the
\* slots taken from sem, and never more than concurrency.
WorkersWithinConcurrency ==
    program \in Pooled =>
        /\ Cardinality(Running) = sem
        /\ sem <= concurrency

\* every slot is taken by a fetching worker while relays of the snapshot wait
WorkersWithinConcurrencyWitness ==
    /\ program \in Pooled
    /\ sem = concurrency
    /\ relaysToCrawl # {}
    /\ \A r \in Running : wpc[r] = "fetch"

CrawledOrOfflineNotBoth ==
    (PassFinished /\ program \in {"crawl", "part010"})
        => \A r \in dispatched : (r \in crawledRelays) # (r \in DOMAIN clearOffline)

\* C4: after a pass of crawl.go or part_010 every dispatched relay is marked
\* crawled, and it is in clearOffline as well exactly when its fetch failed.
CrawledAndOfflineIfFailed ==
    (PassFinished /\ program \in {"crawl", "part010"})
        => \A r \in dispatched :
              /\ r \in crawledRelays
              /\ (r \in DOMAIN clearOffline) <=> (r \notin succeeded)

\* a pass has ended with a relay that failed and one that was fetched
CrawledAndOfflineIfFailedWitness ==
    /\ PassFinished
    /\ program \in {"crawl", "part010"}
    /\ \E r \in dispatched : r \in crawledRelays /\ r \in DOMAIN clearOffline
    /\ \E r \in dispatched : r \in succeeded

\* C5: a URL of the local, onion, malformed or clearAPI partition is never in
\* a snapshot, never given a worker and never fetched by one.
ExcludedNeverDispatched ==
    program \in Pooled =>
        \A r \in Excluded :
            /\ r \notin dispatched
            /\ r \notin relaysToCrawl
            /\ wpc[r] = "idle"
            /\ attempts[r] = 0

\* a later pass dispatches relays after excluded URLs were discovered again
ExcludedNeverDispatchedWitness ==
    /\ program \in Pooled
    /\ passes >= 2
    /\ mpc = "wait"
    /\ dispatched # {}
    /\ Get(onion, onionURL) >= 2
    /\ apiURL \in DOMAIN clearAPI

\* the number of attempts a relay is given
Tries == IF program \in Pooled THEN maxTries ELSE maxRetries

\* C6 as stated: a relay whose fetches all fail is never attempted more than
\* maxTries times over the whole run.
FailingRelayTriedMaxTries ==
    \A r \in Keys \ {seedKey} : r \notin succeeded => attempts[r] <= Tries

\* C7 as stated: while an attempt of its retry loop remains, a relay is not in
\* clearOffline.
OfflineOnlyAfterLastTry ==
    program \in Pooled =>
        \A r \in Keys :
            (wpc[r] = "loop" /\ tries[r] < maxTries) => r \notin DOMAIN clearOffline

\* C8 as stated: a worker sleeps its backoff only when another attempt follows.
SleepOnlyBetweenTries ==
    \A r \in Keys :
        /\ wpc[r] = "sleep" => tries[r] + 1 < maxTries
        /\ crawler[r].pc = "sleep" => crawler[r].retry + 1 < maxRetries

\* C9 as stated: when an attempt has succeeded and the loop has stopped, the
\* relay is marked crawled, is in clearOnline and is not in clearOffline.
SuccessEndsCrawled ==
    program \in Pooled =>
        \A r \in Keys :
            wpc[r] = "break" =>
                /\ r \in crawledRelays
                /\ r \in DOMAIN clearOnline
                /\ r \notin DOMAIN clearOffline

\* C10 as stated: every URL advertised by a relay a worker has fetched is in
\* the registry.
AdvertisedIsRegistered ==
    program \in Pooled =>
        \A r \in succeeded :
            \A i \in 1..Len(Advertised(r)) :
                normalizeURL(Advertised(r)[i]) \in Registered

\* C11: classifyRelay puts every string under the category that the ordered
\* checks Malformed, Local, Onion, API, ClearOnline give, the first match
\* deciding: a string without ws:// or wss:// prefix is malformed whatever its
\* host, a .local host with a path is local, a .onion host with a path is onion,
\* a clear host with a path other than "/" is clearAPI and every other clear
\* host is clearOnline.
ClassifiedInOrder ==
    classifyCalls > 0 =>
        LET n == LastKey
            h == HostToks(n)
            ws == Len(n) > 0 /\ n[1] \in {"ws://", "wss://"}
            clear == ws /\ EndsWith(h, ".com") /\ "%zz" \notin {h[i] : i \in 1..Len(h)}
        IN  /\ Cardinality(PartsOf(n)) = 1
            /\ ~ws => PartsOf(n) = {"malformed"}
            /\ ws /\ EndsWith(h, ".local") => PartsOf(n) = {"local"}
            /\ ws /\ EndsWith(h, ".onion") => PartsOf(n) = {"onion"}
            /\ clear /\ HasPathToks(n) => PartsOf(n) = {"clearAPI"}
            /\ clear /\ ~HasPathToks(n) => PartsOf(n) = {"clearOnline"}
            /\ ~(ws /\ (EndsWith(h, ".local") \/ EndsWith(h, ".onion") \/ clear))
                   => PartsOf(n) = {"malformed"}

\* a .local host with a path and a .onion host with a path were classified, as
\* local and as onion
ClassifiedInOrderWitness ==
    /\ classifyCalls = 2
    /\ <<"wss://", "h", ".local", "/", "filter">> \in DOMAIN local
    /\ <<"wss://", "x", ".onion", "/", "filter">> \in DOMAIN onion
    /\ classifyIn = <<"wss://", "x", ".onion", "/", "filter">>

\* C12 as stated (Scenario A): after the first pass from a seed whose event
\* lists wss://r2, ws://192.168.1.5, an onion relay, wss://r2/filter and
\* not-a-url, the seed is crawled, wss://r2 is in clearOnline with count 1,
\* ws://192.168.1.5 is local, the onion relay is onion, wss://r2/filter is
\* clearAPI and not-a-url is malformed.
ScenarioARegistry ==
    (/\ program \in Pooled /\ graph = "scenarioA" /\ passes = 1 /\ mpc = "sleep"
     /\ Get(registrations, relayR2) = 1) =>
        /\ initialRelay \in crawledRelays
        /\ Get(clearOnline, relayR2) = 1
        /\ ipURL \in DOMAIN local
        /\ onionURL \in DOMAIN onion
        /\ apiR2 \in DOMAIN clearAPI
        /\ badURL \in DOMAIN malformed

\* C13 as stated: a ws:// or wss:// URL whose host is an IP literal that is
\* loopback or lies in a private or reserved range is counted in the local
\* partition, not in malformed and not in clearOnline.
IPLiteralIsLocal ==
    classifyCalls > 0 =>
        LET n == LastKey
            ip == ParseIP(HostToks(n))
        IN  (/\ Len(n) > 0 /\ n[1] \in {"ws://", "wss://"}
             /\ ip # <<>>
             /\ (IsLoopback(ip) \/ isReservedIP(ip))) => PartsOf(n) = {"local"}

\* C14: one call of classifyRelay, on any string, raises the count of the
\* string's key in exactly one of malformed, local, onion, clearAPI and
\* clearOnline by exactly 1 and changes nothing else in these partitions, in
\* clearOffline or in crawledRelays; a string that fails URL parsing is counted
\* in malformed.
ClassifyCountsOnce ==
    [][classifyCalls' # classifyCalls =>
        LET n == normalizeURL(classifyIn')
        IN  /\ \E c \in Categories :
                   /\ Parts'[c] = Put(Parts[c], n, Get(Parts[c], n) + 1)
                   /\ \A d \in Categories \ {c} : Parts'[d] = Parts[d]
            /\ clearOffline' = clearOffline
            /\ crawledRelays' = crawledRelays
            /\ ParseFails(classifyIn') => Get(malformed', n) = Get(malformed, n) + 1]_vars

\* a string that fails URL parsing was classified twice
ClassifyCountsOnceWitness ==
    /\ classifyCalls = 2
    /\ ParseFails(classifyIn)
    /\ Get(malformed, LastKey) = 2

\* the partitions of the pooled registry, clearOffline included, that hold k
RecordsOf(k) ==
    PartsOf(k) \cup (IF k \in DOMAIN clearOffline THEN {"clearOffline"} ELSE {})

\* C15 as stated (Scenario C): once the events of b and of c, which are fetched
\* at the same time, have both registered a, a has one record, in one
\* partition, and its count is 2; in the recursive crawler a has one entry of
\* relays with Count 2.
RegisteredTwiceOneRecord ==
    (graph = "scenarioC" /\ Get(registrations, relayA) = 2) =>
        /\ program \in Pooled =>
               /\ Cardinality(RecordsOf(relayA)) = 1
               /\ Get(clearOnline, relayA) + Get(clearOffline, relayA) = 2
        /\ program = "recursive" =>
               relayA \in DOMAIN relays /\ relays[relayA].Count = 2

\* the counts stored for k in the partitions of the pooled registry
StoredCounts(k) ==
    {Parts[c][k] : c \in PartsOf(k)}
    \cup (IF k \in DOMAIN clearOffline THEN {clearOffline[k]} ELSE {})
\* the largest of them, 0 when k has no record
LargestCount(k) ==
    IF StoredCounts(k) = {} THEN 0
    ELSE CHOOSE n \in StoredCounts(k) : \A m \in StoredCounts(k) : m <= n

\* a step keeps the counts: none below 1, none lowered, and the count of
\* clearOnline carried over to clearOffline
CountsKept ==
    program \in Pooled =>
        \A k \in Registered' :
            /\ \A n \in StoredCounts(k)' : n >= 1
            /\ LargestCount(k)' >= LargestCount(k)
            /\ (/\ k \in DOMAIN clearOffline'
                /\ clearOffline' # clearOffline
                /\ k \in DOMAIN clearOnline) => clearOffline'[k] = clearOnline[k]

\* C16 as stated: every count stored for a relay is at least 1, no step lowers
\* the count of a relay, and a relay moved to clearOffline keeps the count it
\* had in clearOnline.
CountNeverDecreases == [][CountsKept]_vars

\* C17 as stated: the key sets of clearOnline, clearOffline, clearAPI, onion,
\* local and malformed are pairwise disjoint in every reachable state, also
\* after a relay of clearOffline was advertised again.
PartitionsDisjoint ==
    program \in Pooled => \A k \in Registered : Cardinality(RecordsOf(k)) = 1

\* CrawlRelay returns before its loop for this URL whatever the depth
\* (src/main.go:108-116)
NeverFetched(relayURL) ==
    ~(Len(relayURL) > 0 /\ relayURL[1] = "wss://") \/ shouldExcludeRelay(relayURL)

\* every relay of the map relays was crawled, is offline or is never fetched
AllRelaysSettled ==
    \A relayURL \in DOMAIN relays :
        \/ normalizeURLTrimSuffix(relayURL) \in crawledRelays
        \/ normalizeURLTrimSuffix(relayURL) \in offlineRelays
        \/ NeverFetched(relayURL)

\* C18 as stated: when main polls and every registered relay is crawled,
\* offline or of a kind CrawlRelay refuses to fetch, allOnlineRelaysCrawled is
\* true.
CompletionDetected ==
    (program = "recursive" /\ mpc = "poll" /\ AllRelaysSettled) => allOnlineRelaysCrawled

\* the CrawlRelay goroutines that are in their retry loop: about to connect,
\* reading, or sleeping before the next try
Crawling == {k \in Keys : crawler[k].pc \in {"loop", "fetch", "sleep"}}

\* C19 as stated: once the recursive crawler has declared the run done
\* (crawlComplete is closed), no CrawlRelay goroutine is connecting, reading or
\* waiting to retry.
QuietWhenComplete ==
    (program = "recursive" /\ mpc = "complete") => Crawling = {}

\* C20 as stated: once EOSE was received, the fetch has returned: it reads no
\* further message and does not wait for the connection to close or for the
\* timeout.
ReturnsOnEose == seedEose => mpc # "reqRun"

\* C21 as stated: against a relay that accepts the connection, sends nothing
\* and never closes, an attempt whose deadline has elapsed has ended: no worker
\* is still waiting in Receive after the deadline of its attempt.
EndsAtDeadline == \A r \in Keys : wpc[r] # "late"

\* C22 as stated: a received message that is neither an event nor EOSE (a JSON
\* array that is too short or starts with another word, or text that is not
\* JSON) changes no map of the registry and does not end the fetch.
OtherMessageIgnored ==
    [][\A r \in DOMAIN noise' \ DOMAIN noise :
          (regVars' = regVars /\ crawledRelays' = crawledRelays /\ wpc'[r] = "fetch")]_vars

\* C23: for an event, parseRelayList registers the second element of every tag
\* that is an array of at least 2 elements with first element "r" and a string
\* as second element, once per occurrence of such a tag, and nothing else: the
\* count of every key is the number of such tags with that key.
RegistersRTags ==
    eventParsed =>
        LET rTags == {i \in 1..Len(eventTags) :
                         /\ eventTags[i].arr
                         /\ Len(eventTags[i].elems) >= 2
                         /\ eventTags[i].elems[1] = Str(<<"r">>)
                         /\ eventTags[i].elems[2].str}
            keyOf(i) == normalizeURL(eventTags[i].elems[2].val)
        IN  /\ Registered = {keyOf(i) : i \in rTags}
            /\ \A k \in Registered :
                   /\ Cardinality(PartsOf(k)) = 1
                   /\ \A c \in PartsOf(k) :
                          Parts[c][k] = Cardinality({i \in rTags : keyOf(i) = k})

\* an event with the same relay in two "r" tags, one of them with a third
\* element, was parsed: count 2
RegistersRTagsWitness ==
    /\ eventParsed
    /\ eventTags = <<Arr(<<Str(<<"r">>), Str(rawA)>>),
                     Arr(<<Str(<<"r">>), Str(relayA), Str(<<"read">>)>>)>>
    /\ clearOnline = (relayA :> 2)

\* C24 as stated: URLs that differ only in letter case or in a trailing slash
\* are one relay: every key of the registry is a normalized URL, so two such
\* spellings share one record, and no relay is fetched by two crawls at once.
OneKeyPerRelay ==
    /\ program \in Pooled => \A k \in Registered : normalizeURL(k) = k
    /\ program = "recursive" =>
           \A u \in DOMAIN relays : \A v \in DOMAIN relays :
               normalizeURLTrimSuffix(u) = normalizeURLTrimSuffix(v) => u = v
    /\ \A k \in Keys : inflight[k] <= 1

\* C25 as stated: the DiscoveredBy of a record is the URL of a relay whose
\* advertised list contains the record's relay and has been parsed, and no
\* step changes the DiscoveredBy of a record that exists.
DiscoveredByAdvertiser ==
    /\ [](\A u \in DOMAIN relays :
             \E k \in Keys :
                 /\ relays[u].DiscoveredBy = k
                 /\ crawler[k].pos = 1
                 /\ \E i \in 1..Len(Advertised(k)) :
                        ~SkipsTag(Advertised(k)[i]) /\ StripToHost(Advertised(k)[i]) = u)
    /\ [][\A u \in DOMAIN relays :
              (u \in DOMAIN relays' /\ relays'[u].DiscoveredBy = relays[u].DiscoveredBy)]_vars

\* C26 as stated: a crawl that main starts as a seed is the crawl of the
\* default seed when the checkpoint has no rows, and otherwise the crawl of a
\* relay that a row of the checkpoint records as not Offline.
SeedsAreOnlineRows ==
    \A k \in Keys :
        (crawler[k].seed /\ crawler[k].pc = "fetch") =>
            IF checkpoint = <<>>
            THEN k = initialRelay
            ELSE \E i \in 1..Len(checkpoint) :
                     checkpoint[i].url = k /\ ~checkpoint[i].offline

\* C27 as stated: the failure of one relay never stops the crawl: while a
\* worker is held by a relay that fails by staying silent, the program still
\* has a step to take (another dispatch, the end of the pass, the next pass).
FailureNeverStops ==
    (\E r \in silent : program \in Pooled /\ wpc[r] \in {"fetch", "late"}) => ENABLED NextSilent

\* C28 as stated, in the form a finite run refutes: when nothing is running
\* any more (the pass of the pooled scheduler has ended; the recursive crawler
\* has no CrawlRelay goroutine left), every relay registered as a public ws://
\* or wss:// relay has been attempted at least once.
ClearOnlineAttempted ==
    LET quiet == IF program \in Pooled THEN PassFinished
                 ELSE mpc \in {"poll", "complete"} /\ calls = {} /\ Crawling = {}
        online == IF program \in Pooled THEN DOMAIN clearOnline
                  ELSE {normalizeURLTrimSuffix(u) :
                            u \in {v \in DOMAIN relays : ~shouldExcludeRelay(v)}}
    IN  quiet => \A k \in online : attempts[k] > 0

\* C29 as stated: crawled and offline are terminal: for a relay that is marked
\* crawled or is in the offline partition, and whose worker or CrawlRelay
\* goroutine has ended, no step starts a worker or another fetch.
CrawledOfflineTerminal ==
    [][(\A k \in Keys :
           (/\ k \in crawledRelays \/ k \in DOMAIN clearOffline \/ k \in offlineRelays
            /\ wpc[k] \in {"idle", "done"}
            /\ crawler[k].pc \in {"idle", "done"})
               => (wpc'[k] \in {"idle", "done"} /\ attempts'[k] = attempts[k]))]_vars

\* C30 as stated: finalize never reads a map that a goroutine is writing (the
\* process is not ended by the runtime), and the files it has written are the
\* partitions of one moment: no relay is in two of them.
ExportIsSnapshot ==
    /\ exitpc # "fatal"
    /\ \A i \in 1..Len(exported) : \A j \in 1..Len(exported) :
           (DOMAIN exported[i].rows \cap DOMAIN exported[j].rows # {}) => i = j

\* C31 as stated: a worker is started only for a relay of the snapshot that
\* was not in crawledRelays and has no worker yet, and when the pass has
\* returned every relay of the snapshot had its worker and is in
\* crawledRelays, no worker is running and all slots of sem are free.
SnapshotPassDone ==
    /\ [](PassFinished =>
             /\ relaysToCrawl = {}
             /\ \A r \in dispatched : wpc[r] = "done" /\ r \in crawledRelays
             /\ \A r \in Keys \ dispatched : wpc[r] = "idle"
             /\ sem = 0)
    /\ [][\A r \in Keys :
              (wpc[r] = "idle" /\ wpc'[r] # "idle") =>
                  (r \in dispatched /\ r \in DOMAIN clearOnline /\ r \notin crawledRelays
                   /\ wpc'[r] = "loop")]_vars

\* C32 as stated: a fetch attempt that ends in failure has registered nothing:
\* in the step in which an attempt at k fails, no event of k was parsed during
\* that attempt, so the retry cannot count the advertised list a second time.
FailedAttemptRegistersNothing ==
    [][(\A k \in Keys :
           /\ (wpc[k] = "fetch" /\ wpc'[k] \in {"loop", "sleep", "mark"}) => ~got[k]
           /\ (crawler[k].pc = "fetch" /\ crawler'[k].pc \in {"loop", "sleep"})
                  => (crawler[k].pos = 0))]_vars

\* C33: for an EVENT message whose third element is no object, or whose tags
\* are missing or no array, parseRelayList returns an error, the step changes
\* no registry map, and the fetch is still reading afterwards.
BadEventIsSkipped ==
    [][(~eventParsed /\ eventParsed' /\ eventTags.shape # "ok") =>
           (/\ parseRelayListErr(eventTags) # "nil"
            /\ regVars' = regVars
            /\ registrations' = registrations
            /\ mpc' = "reqRun")]_vars

\* after an event without tags the fetch read on: the seed's list was
\* registered by a later event of the same fetch
BadEventIsSkippedWitness ==
    /\ eventParsed
    /\ eventTags.shape = "noTags"
    /\ mpc = "reqRun"
    /\ passes = 1
    /\ seedGot
    /\ wsRelay \in DOMAIN clearOnline

\* C34 as stated: depth is carried along each discovery edge: every CrawlRelay
\* that parseRelayList starts for a relay of an event has a smaller maxDepth
\* than the CrawlRelay that fetched the event.
DepthCarried ==
    [][(\A k \in Keys :
           (crawler[k].pos = 0 /\ crawler'[k].pos = 1) =>
               \A c \in calls' \ calls : c.depth < crawler[k].maxDepth)]_vars

\* C37 as stated: in the pooled scheduler every relay of crawledRelays is a
\* key of clearOnline or of clearOffline, so the remaining count of the
\* progress display, (|clearOnline| + |clearOffline|) - |crawledRelays|, is
\* never negative, and it is 0 exactly when no relay of clearOnline is left
\* to crawl.
RemainingIsWaiting ==
    program \in Pooled =>
        LET totalRelays == Cardinality(DOMAIN clearOnline) + Cardinality(DOMAIN clearOffline)
            remaining == totalRelays - Cardinality(crawledRelays)
        IN  /\ crawledRelays \subseteq DOMAIN clearOnline \cup DOMAIN clearOffline
            /\ remaining >= 0
            /\ (remaining = 0) <=> completed

\* C39 as stated: normalizeURL is idempotent in both implementations: applied
\* to its own result it returns that result.
NormalizeIdempotent ==
    [][(classifyCalls >= 1 /\ classifyCalls' = classifyCalls + 1) =>
           (classifyIn' = classifyIn)]_vars

\* C35 as stated: when no goroutine of the crawl package is running, each
\* status counter equals the number of keys of its map.
CountersMatchMaps ==
    (pkg.spawned = {} /\ pkg.fetching = {} /\ pkg.storing = {}) =>
        /\ pkg.foundRelaysCount = Cardinality(pkg.Relays)
        /\ pkg.crawledRelaysCount = Cardinality(pkg.CrawledRelays)
        /\ pkg.offlineRelaysCount = Cardinality(pkg.OfflineRelays)

\* C36 as stated: RemainingRelaysCount is never negative, and when no goroutine
\* is running it is 0 exactly when every relay of Relays is crawled or offline.
RemainingCountIsFrontier ==
    /\ pkg.RemainingRelaysCount >= 0
    /\ (pkg.spawned = {} /\ pkg.fetching = {} /\ pkg.storing = {}) =>
           ((pkg.RemainingRelaysCount = 0) <=>
               (\A r \in pkg.Relays : r \in pkg.CrawledRelays \/ r \in pkg.OfflineRelays))

\* C38: the locks of the crawl package never deadlock: no reachable state has
\* a set of goroutines each of which waits for a lock that another goroutine
\* of the set holds (or, to read, for a writer of the set that waits).
\* (Taking away, again and again, the goroutines that wait for no goroutine
\* still in the set leaves the largest such set.)
NoLockDeadlock ==
    LET RECURSIVE Stuck(_)
        Stuck(S) ==
            LET T == {g \in S : \E h \in S : WaitsFor(g, h)}
            IN  IF T = S THEN S ELSE Stuck(T)
    IN  Stuck(Goroutines) = {}

\* ResetRelayData holds RelaysMutex and CrawledMutex, and every other goroutine
\* waits for one of the two
NoLockDeadlockWitness ==
    /\ lk["ResetRelayData"] = [pos |-> 2, arrived |-> FALSE]
    /\ \A g \in Goroutines \ {"ResetRelayData"} : WaitsFor(g, "ResetRelayData")
====
